---- MODULE Spec2Model ----
(***************************************************************************)
(* Attribute Master (src/AttributeMaster.py): a panel that edits the       *)
(* user-defined attributes of the selected scene node through the host's   *)
(* command API (cmds.setAttr, cmds.renameAttr, cmds.deleteAttr,            *)
(* cmds.addAttr, cmds.undoInfo, cmds.undo).                                *)
(*                                                                         *)
(* The host is modelled by the record H that every handler threads through *)
(* its host calls: the node's ordered attribute list, the undo queue and   *)
(* its configuration, the log of the calls the handler issued and the      *)
(* fault flag (a Python exception raised by a host call or by the handler  *)
(* itself, which ends the handler; "with" blocks still run __exit__).      *)
(* All handlers run on the single UI thread, so each is one atomic action. *)
(***************************************************************************)
EXTENDS Integers, Sequences, FiniteSets, TLC

\* ------------------------------------------------------------------ bounds
MaxNames == 3
MaxUndoLen == 1
MaxQueue == 2
MaxPlain == 1
MaxAttrs == 2
MaxRemoves == 2

\* ------------------------------------------------------- program constants
SepSearchLimit == 10

SepMarker == "__seperator_"

\* ------------------------------------------------------------------- names
\* A long name is a sequence of text tokens; concatenation is \o.
PlainName(i) == <<"attr", ToString(i)>>

SepName(id) == <<SepMarker>> \o <<ToString(id)>>

PlainNames == {PlainName(i) : i \in 1..MaxNames}

\* A plug of some other node that attributes of the node may be connected to.
ExtPlug == <<"other", "tx">>

\* A list row whose item has no Attribute widget (itemWidget returns None).
NoWidget == <<>>

\* The handle MModelMessage.addCallback returns, and self.callback before
\* register_callback has set it.
CallbackId == "kActiveListModified"

NoCallback == "unset"

VARIABLES
    attrs,          \* host: the node's user-defined attributes, in host order
    undoQueue,      \* host: undo queue, oldest first
    undoState,      \* host: undoInfo state
    undoInfinity,   \* host: undoInfo infinity
    undoLength,     \* host: undoInfo length
    conns,          \* host: connections <<source plug, destination plug>>
    extLocked,      \* host: lock flag of the plug ExtPlug of another node
    selected,       \* host: TRUE iff the node is the active selection
    rows,           \* panel: listWidget rows (Attribute widgets), top to bottom
    op,             \* name of the handler that ran last
    fault,          \* TRUE iff that handler ended with an exception
    calls,          \* host calls that handler issued, in order
    arg,            \* what that handler was given (its inputs)
    window_is_open, \* panel: self.window_is_open
    callback,       \* panel: self.callback, the handle addCallback returned
    registered,     \* host: TRUE iff the selection-change callback is registered
    removeCalls     \* host: how often removeCallback was called for the handle

\* The panel's subscription to the host's selection changes.
teardown == <<window_is_open, callback, registered, removeCalls>>

vars == <<attrs, undoQueue, undoState, undoInfinity, undoLength, conns,
          extLocked, selected, rows, op, fault, calls, arg, teardown>>

\* ------------------------------------------------------------ small helpers
RECURSIVE Reverse(_)
Reverse(s) == IF s = <<>> THEN <<>> ELSE Append(Reverse(Tail(s)), Head(s))

SeqNames(as) == {as[i].longName : i \in DOMAIN as}

RemoveAt(s, i) == SubSeq(s, 1, i - 1) \o SubSeq(s, i + 1, Len(s))

\* Sequences over S without repetition, of every length.
RECURSIVE Perms(_)
Perms(S) ==
    IF S = {} THEN {<<>>}
    ELSE UNION {{<<x>> \o p : p \in Perms(S \ {x})} : x \in S}

Arrangements(S) == UNION {Perms(T) : T \in SUBSET S}

\* ------------------------------------------------------------- host: state
Host == [attrs |-> attrs, queue |-> undoQueue, ust |-> undoState,
         uinf |-> undoInfinity, ulen |-> undoLength,
         conns |-> conns, extLocked |-> extLocked,
         inChunk |-> FALSE, chunk |-> <<>>, calls |-> <<>>, fault |-> FALSE]

HExists(H, n) == \E i \in DOMAIN H.attrs : H.attrs[i].longName = n

HIndex(H, n) == CHOOSE i \in DOMAIN H.attrs : H.attrs[i].longName = n

HGet(H, n) == H.attrs[HIndex(H, n)]

Log(H, c) == [H EXCEPT !.calls = Append(@, c)]

Raise(H) == [H EXCEPT !.fault = TRUE]

\* The queue keeps its newest `length` entries unless it is infinite.
Trim(q, inf, len) ==
    IF inf \/ Len(q) <= len THEN q ELSE SubSeq(q, Len(q) - len + 1, Len(q))

\* An undoable host command records its inverse: in the open chunk if there
\* is one, else as a queue entry of its own; nothing while undo is off.
Record(H, e) ==
    IF ~H.ust THEN H
    ELSE IF H.inChunk THEN [H EXCEPT !.chunk = Append(@, e)]
    ELSE [H EXCEPT !.queue = Trim(Append(@, e), H.uinf, H.ulen)]

\* ---------------------------------------------------------- host: commands
\* A command issued after an exception was raised is never reached.

\* cmds.attributeQuery(n, node=node, exists=True)
attributeQuery_exists(H, n) == HExists(H, n)

\* cmds.getAttr(path, lock=True | keyable=True | channelBox=True)
getAttr(H, n, field) == HGet(H, n)[field]

PlugExists(H, p) == p = ExtPlug \/ HExists(H, p)

PlugLocked(H, p) == IF p = ExtPlug THEN H.extLocked ELSE HGet(H, p).locked

\* cmds.setAttr(path, lock=v | keyable=v | channelBox=v): raises when the
\* plug does not exist; the three flags are independent of one another.
setAttr(H, p, field, val) ==
    IF H.fault THEN H
    ELSE IF ~PlugExists(H, p)
    THEN Raise(Log(H, [cmd |-> "setAttr", name |-> p, field |-> field,
                       val |-> val, ok |-> FALSE]))
    ELSE LET L == Log(H, [cmd |-> "setAttr", name |-> p, field |-> field,
                          val |-> val, ok |-> TRUE])
         IN  IF p = ExtPlug
             THEN Record([L EXCEPT !.extLocked = val],
                         [kind |-> "setAttr", name |-> p, field |-> field,
                          old |-> H.extLocked])
             ELSE Record([L EXCEPT !.attrs[HIndex(H, p)][field] = val],
                         [kind |-> "setAttr", name |-> p, field |-> field,
                          old |-> HGet(H, p)[field]])

\* cmds.renameAttr(path, new): the host refuses a missing attribute, a
\* locked attribute and a name already in use; the attribute keeps its
\* place, its flags and its connections.
RenamePlug(p, old, new) == IF p = old THEN new ELSE p

renameAttr(H, old, new) ==
    IF H.fault THEN H
    ELSE IF ~HExists(H, old) \/ HGet(H, old).locked \/ HExists(H, new)
    THEN Raise(Log(H, [cmd |-> "renameAttr", name |-> old, new |-> new,
                       lockedThen |-> HExists(H, old) /\ HGet(H, old).locked,
                       ok |-> FALSE]))
    ELSE Record([Log(H, [cmd |-> "renameAttr", name |-> old, new |-> new,
                         lockedThen |-> FALSE, ok |-> TRUE])
                    EXCEPT !.attrs[HIndex(H, old)].longName = new,
                           !.conns = {<<RenamePlug(c[1], old, new),
                                        RenamePlug(c[2], old, new)>> : c \in @}],
                [kind |-> "renameAttr", name |-> old, new |-> new])

\* cmds.listConnections(path, plugs=True, source=True, destination=False)
\* and its mirror: the plugs on the other end, in the host's order.
RECURSIVE SetToSeq(_)
SetToSeq(S) ==
    IF S = {} THEN <<>>
    ELSE LET x == CHOOSE y \in S : TRUE IN <<x>> \o SetToSeq(S \ {x})

listConnections_incoming(H, n) == SetToSeq({c[1] : c \in {d \in H.conns : d[2] = n}})

listConnections_outgoing(H, n) == SetToSeq({c[2] : c \in {d \in H.conns : d[1] = n}})

\* cmds.disconnectAttr(src, dst): the host refuses a connection that does
\* not exist and a locked destination.
disconnectAttr(H, src, dst) ==
    IF H.fault THEN H
    ELSE IF <<src, dst>> \notin H.conns \/ PlugLocked(H, dst)
    THEN Raise(Log(H, [cmd |-> "disconnectAttr", name |-> src, dst |-> dst,
                       ok |-> FALSE]))
    ELSE Record([Log(H, [cmd |-> "disconnectAttr", name |-> src, dst |-> dst,
                         ok |-> TRUE])
                    EXCEPT !.conns = @ \ {<<src, dst>>}],
                [kind |-> "disconnectAttr", name |-> src, dst |-> dst])

\* cmds.deleteAttr(path): raises when the attribute does not exist or is
\* locked; connections that are left go with the attribute.
deleteAttr(H, n) ==
    IF H.fault THEN H
    ELSE IF ~HExists(H, n) \/ HGet(H, n).locked
    THEN Raise(Log(H, [cmd |-> "deleteAttr", name |-> n, ok |-> FALSE]))
    ELSE Record([Log(H, [cmd |-> "deleteAttr", name |-> n, ok |-> TRUE])
                    EXCEPT !.attrs = RemoveAt(@, HIndex(H, n)),
                           !.conns = {c \in @ : c[1] # n /\ c[2] # n}],
                [kind |-> "deleteAttr", rec |-> HGet(H, n),
                 conns |-> {c \in H.conns : c[1] = n \/ c[2] = n}])

\* cmds.addAttr(node, longName=n, ...): a new attribute goes to the end of
\* the node's attribute list; the host refuses a name already in use.
addAttr(H, rec) ==
    IF H.fault THEN H
    ELSE IF HExists(H, rec.longName)
    THEN Raise(Log(H, [cmd |-> "addAttr", name |-> rec.longName, ok |-> FALSE]))
    ELSE Record([Log(H, [cmd |-> "addAttr", name |-> rec.longName, ok |-> TRUE])
                    EXCEPT !.attrs = Append(@, rec)],
                [kind |-> "addAttr", name |-> rec.longName])

\* cmds.undoInfo(state=st, infinity=inf, length=len): turning undo off
\* flushes the queue, a finite length cuts it.
undoInfo_set(H, st, inf, len) ==
    [Log(H, [cmd |-> "undoInfo", state |-> st, infinity |-> inf, length |-> len])
        EXCEPT !.ust = st, !.uinf = inf, !.ulen = len,
               !.queue = IF st THEN Trim(@, inf, len) ELSE <<>>]

\* cmds.undoInfo(openChunk=True)
undoInfo_openChunk(H) ==
    IF H.fault THEN H
    ELSE [Log(H, [cmd |-> "openChunk"]) EXCEPT !.inChunk = TRUE, !.chunk = <<>>]

\* cmds.undoInfo(closeChunk=True): the commands recorded since openChunk
\* become one queue entry; a chunk that recorded nothing leaves none.
undoInfo_closeChunk(H) ==
    LET L == [Log(H, [cmd |-> "closeChunk"]) EXCEPT !.inChunk = FALSE, !.chunk = <<>>]
    IN  IF H.ust /\ H.chunk # <<>>
        THEN [L EXCEPT !.queue = Trim(Append(@, [kind |-> "chunk", entries |-> H.chunk]),
                                      H.uinf, H.ulen)]
        ELSE L

\* The inverse of one recorded command. Undoing deleteAttr creates the
\* attribute again, with its flags and connections, at the END of the
\* node's attribute list: that is what reorder() relies on.
InverseOne(H, e) ==
    CASE e.kind = "setAttr" ->
            IF e.name = ExtPlug THEN [H EXCEPT !.extLocked = e.old]
            ELSE IF HExists(H, e.name)
                 THEN [H EXCEPT !.attrs[HIndex(H, e.name)][e.field] = e.old]
                 ELSE H
      [] e.kind = "renameAttr" ->
            IF HExists(H, e.new) /\ ~HExists(H, e.name)
            THEN [H EXCEPT !.attrs[HIndex(H, e.new)].longName = e.name,
                           !.conns = {<<RenamePlug(c[1], e.new, e.name),
                                        RenamePlug(c[2], e.new, e.name)>> : c \in @}]
            ELSE H
      [] e.kind = "deleteAttr" ->
            IF HExists(H, e.rec.longName) THEN H
            ELSE [H EXCEPT !.attrs = Append(@, e.rec), !.conns = @ \cup e.conns]
      [] e.kind = "addAttr" ->
            IF HExists(H, e.name)
            THEN [H EXCEPT !.attrs = RemoveAt(@, HIndex(H, e.name)),
                           !.conns = {c \in @ : c[1] # e.name /\ c[2] # e.name}]
            ELSE H
      [] e.kind = "disconnectAttr" -> [H EXCEPT !.conns = @ \cup {<<e.name, e.dst>>}]

\* The commands of a chunk are undone newest first.
RECURSIVE InverseAll(_, _)
InverseAll(H, es) ==
    IF es = <<>> THEN H
    ELSE InverseAll(InverseOne(H, es[Len(es)]), SubSeq(es, 1, Len(es) - 1))

\* cmds.undo(): undoes the newest queue entry and drops it; with nothing
\* to undo the host only warns.
undo(H) ==
    IF H.fault THEN H
    ELSE IF ~H.ust \/ H.queue = <<>>
    THEN Log(H, [cmd |-> "undo", ok |-> FALSE])
    ELSE LET e == H.queue[Len(H.queue)]
             P == [H EXCEPT !.queue = SubSeq(@, 1, Len(@) - 1)]
         IN  Log(IF e.kind = "chunk" THEN InverseAll(P, e.entries)
                 ELSE InverseOne(P, e),
                 [cmd |-> "undo", ok |-> TRUE])

\* ------------------------------------------------- class UndoStateContext
\* __init__ reads the three settings, __enter__ forces undo on and
\* infinite, __exit__ writes the three settings back, on every exit path.
UndoStateContext_init(H) == [state |-> H.ust, infinity |-> H.uinf, length |-> H.ulen]

UndoStateContext_enter(H) == undoInfo_set(H, TRUE, TRUE, H.ulen)

\* An __exit__ that an exception skips (no "with" statement).
UndoStateContext_exit_skipped(H, self) ==
    IF H.fault THEN H ELSE undoInfo_set(H, self.state, self.infinity, self.length)

UndoStateContext_exit(H, self) ==
    undoInfo_set(H, self.state, self.infinity, self.length)

\* ------------------------------------------------- class UndoChunkContext
UndoChunkContext_enter(H) == undoInfo_openChunk(H)

UndoChunkContext_exit(H) == undoInfo_closeChunk(H)

\* --------------------------------------------------------- class Attribute
\* An Attribute widget is known by the longName it holds (its path is
\* node.longName); the queries read the host each time.
exists(H, ln) == attributeQuery_exists(H, ln)

is_keyable(H, ln) == exists(H, ln) /\ getAttr(H, ln, "keyable")

is_locked(H, ln) == exists(H, ln) /\ getAttr(H, ln, "locked")

is_hidden(H, ln) == exists(H, ln) /\ (getAttr(H, ln, "channelBox") = FALSE)

is_seperator(ln) == ln # NoWidget /\ \E k \in DOMAIN ln : ln[k] = SepMarker

\* A refresh that tests not-keyable before locked.
Attribute_refresh_swapped(H, ln) ==
    IF is_seperator(ln) THEN "separator"
    ELSE IF is_hidden(H, ln) /\ (is_keyable(H, ln) = FALSE) THEN "hidden"
    ELSE IF ~is_keyable(H, ln) THEN "notkeyable"
    ELSE IF is_locked(H, ln) THEN "locked"
    ELSE IF is_keyable(H, ln) THEN "keyable"
    ELSE "undefined"

\* Attribute.refresh: the style chosen for the row, named by display class;
\* "undefined" is the style left with its placeholder when no branch is taken.
Attribute_refresh(H, ln) ==
    IF is_seperator(ln) THEN "separator"
    ELSE IF is_hidden(H, ln) /\ (is_keyable(H, ln) = FALSE) THEN "hidden"
    ELSE IF is_locked(H, ln) THEN "locked"
    ELSE IF ~is_keyable(H, ln) THEN "notkeyable"
    ELSE IF is_keyable(H, ln) THEN "keyable"
    ELSE "undefined"

\* Attribute.delete, the loops over the connections.
RECURSIVE DeleteIncoming(_, _, _)
DeleteIncoming(H, ln, cs) ==
    IF cs = <<>> THEN H
    ELSE DeleteIncoming(disconnectAttr(setAttr(H, Head(cs), "locked", FALSE),
                                       Head(cs), ln),
                        ln, Tail(cs))

RECURSIVE DeleteOutgoing(_, _, _)
DeleteOutgoing(H, ln, cs) ==
    IF cs = <<>> THEN H
    ELSE DeleteOutgoing(disconnectAttr(setAttr(H, Head(cs), "locked", FALSE),
                                       ln, Head(cs)),
                        ln, Tail(cs))

\* A delete that does not unlock the attribute first.
Attribute_delete_nounlock(H, ln) ==
    LET H1 == UndoChunkContext_enter(H)
        H3 == DeleteIncoming(H1, ln, listConnections_incoming(H1, ln))
        H4 == IF H3.fault THEN H3
              ELSE DeleteOutgoing(H3, ln, listConnections_outgoing(H3, ln))
        H5 == deleteAttr(H4, ln)
    IN  UndoChunkContext_exit(H5)

\* Attribute.delete
Attribute_delete(H, ln) ==
    LET H1 == UndoChunkContext_enter(H)
        H2 == setAttr(H1, ln, "locked", FALSE)
        H3 == IF H2.fault THEN H2
              ELSE DeleteIncoming(H2, ln, listConnections_incoming(H2, ln))
        H4 == IF H3.fault THEN H3
              ELSE DeleteOutgoing(H3, ln, listConnections_outgoing(H3, ln))
        H5 == deleteAttr(H4, ln)
    IN  UndoChunkContext_exit(H5)

\* A rename without the check that the new name is free.
Attribute_rename_unchecked(H, ln, new) ==
    LET was_locked == is_locked(H, ln)
        H1 == IF was_locked THEN setAttr(H, ln, "locked", FALSE) ELSE H
        H2 == renameAttr(H1, ln, new)
        H3 == IF was_locked THEN setAttr(H2, new, "locked", TRUE) ELSE H2
    IN  [H |-> H3, longName |-> IF H2.fault THEN ln ELSE new]

\* A rename that unlocks and never locks again.
Attribute_rename_norelock(H, ln, new) ==
    IF attributeQuery_exists(H, new) THEN [H |-> H, longName |-> ln]
    ELSE LET was_locked == is_locked(H, ln)
             H1 == IF was_locked THEN setAttr(H, ln, "locked", FALSE) ELSE H
             H2 == renameAttr(H1, ln, new)
         IN  [H |-> H2, longName |-> IF H2.fault THEN ln ELSE new]

\* Attribute.rename(longName=new): the result is the host and the longName
\* the widget holds afterwards.
Attribute_rename(H, ln, new) ==
    IF attributeQuery_exists(H, new) THEN [H |-> H, longName |-> ln]
    ELSE LET was_locked == is_locked(H, ln)
             H1 == IF was_locked THEN setAttr(H, ln, "locked", FALSE) ELSE H
             H2 == renameAttr(H1, ln, new)
             H3 == IF was_locked THEN setAttr(H2, new, "locked", TRUE) ELSE H2
         IN  [H |-> H3, longName |-> IF H2.fault THEN ln ELSE new]

\* ---------------------------------------------------- class AttributeMaster
\* A row of listWidget: the longName its Attribute widget holds and the
\* style Attribute.refresh gave it last; a row may have no widget.
Row(H, ln) == [longName |-> ln, style |-> Attribute_refresh(H, ln)]

EmptyRow == [longName |-> NoWidget, style |-> "none"]

\* AttributeMaster.refresh: the list is cleared and rebuilt from
\* cmds.listAttr(select, userDefined=True); empty when nothing is selected.
AM_refresh(H, sel) ==
    IF ~sel THEN <<>>
    ELSE [i \in 1..Len(H.attrs) |-> Row(H, H.attrs[i].longName)]

\* AttributeMaster.attributes_ordered: the widgets of the rows that have one.
RECURSIVE attributes_ordered(_)
attributes_ordered(rs) ==
    IF rs = <<>> THEN <<>>
    ELSE IF Head(rs).longName # NoWidget
         THEN <<Head(rs).longName>> \o attributes_ordered(Tail(rs))
         ELSE attributes_ordered(Tail(rs))

\* The bodies of the four display-state loops, for one selected item.
\* A set_keyable that forgets to unlock.
set_keyable_item_nounlock(H, ln) == setAttr(H, ln, "keyable", TRUE)

set_keyable_item(H, ln) ==
    setAttr(setAttr(H, ln, "locked", FALSE), ln, "keyable", TRUE)

set_notkeyable_item(H, ln) ==
    setAttr(setAttr(setAttr(H, ln, "locked", FALSE), ln, "keyable", FALSE),
            ln, "channelBox", TRUE)

set_displayable_item(H, ln) ==
    setAttr(setAttr(setAttr(H, ln, "locked", TRUE), ln, "keyable", FALSE),
            ln, "channelBox", TRUE)

\* A set_hidden that forgets to lock.
set_hidden_item_nolock(H, ln) ==
    setAttr(setAttr(H, ln, "keyable", FALSE), ln, "channelBox", FALSE)

set_hidden_item(H, ln) ==
    setAttr(setAttr(setAttr(H, ln, "keyable", FALSE), ln, "locked", TRUE),
            ln, "channelBox", FALSE)

set_item(which, H, ln) ==
    CASE which = "set_keyable" -> set_keyable_item(H, ln)
      [] which = "set_notkeyable" -> set_notkeyable_item(H, ln)
      [] which = "set_displayable" -> set_displayable_item(H, ln)
      [] which = "set_hidden" -> set_hidden_item(H, ln)

\* for item in selected: attr = itemWidget(item); <setAttr ...>; attr.refresh()
\* An item without a widget gives attr = None and attr.path raises.
RECURSIVE set_loop(_, _, _)
set_loop(which, R, items) ==
    IF items = <<>> \/ R.H.fault THEN R
    ELSE LET i == Head(items)
             ln == R.rows[i].longName
         IN  IF ln = NoWidget
             THEN [R EXCEPT !.H = Raise(@)]
             ELSE LET H1 == set_item(which, R.H, ln)
                  IN  set_loop(which,
                               [H |-> H1,
                                rows |-> IF H1.fault THEN R.rows
                                         ELSE [R.rows EXCEPT ![i] = Row(H1, ln)]],
                               Tail(items))

\* AttributeMaster.reorder, first loop: delete in reversed list order.
RECURSIVE reorder_delete(_, _)
reorder_delete(H, as) ==
    IF as = <<>> \/ H.fault THEN H
    ELSE reorder_delete(Attribute_delete(H, Head(as)), Tail(as))

\* AttributeMaster.reorder, second loop: one undo per list row.
RECURSIVE reorder_undo(_, _)
reorder_undo(H, n) ==
    IF n = 0 \/ H.fault THEN H ELSE reorder_undo(undo(H), n - 1)

\* A reorder that deletes in list order instead of reversed list order.
AM_reorder_forward(H, rs) ==
    LET self == UndoStateContext_init(H)
        H1 == UndoStateContext_enter(H)
        H2 == reorder_delete(H1, attributes_ordered(rs))
        H3 == reorder_undo(H2, Len(rs))
    IN  UndoStateContext_exit(H3, self)

\* AttributeMaster.reorder
AM_reorder(H, rs) ==
    LET self == UndoStateContext_init(H)
        H1 == UndoStateContext_enter(H)
        H2 == reorder_delete(H1, Reverse(attributes_ordered(rs)))
        H3 == reorder_undo(H2, Len(rs))
    IN  UndoStateContext_exit(H3, self)

\* A search that never gives up.
RECURSIVE seperator_search_unbounded(_, _, _)
seperator_search_unbounded(H, id, max) ==
    IF attributeQuery_exists(H, SepName(id))
    THEN seperator_search_unbounded(H, id + 1, max + 1)
    ELSE id

\* AttributeMaster.add_new_seperator: the search for a free id.
RECURSIVE seperator_search(_, _, _)
seperator_search(H, id, max) ==
    IF attributeQuery_exists(H, SepName(id))
    THEN IF max + 1 > SepSearchLimit THEN id
         ELSE seperator_search(H, id + 1, max + 1)
    ELSE id

\* The attribute addAttr(attributeType='enum') creates: unlocked, not
\* keyable, not in the channel box.
NewAttr(ln) == [longName |-> ln, locked |-> FALSE, keyable |-> FALSE,
                channelBox |-> FALSE]

\* AttributeMaster.add_new_seperator, after the node is known; text and
\* result are what the input dialog returned.
AM_add_new_seperator(H, text, result) ==
    LET name == SepName(seperator_search(H, 0, 0))
    IN  IF result /\ Len(text) > 0
        THEN setAttr(setAttr(addAttr(H, NewAttr(name)), name, "channelBox", TRUE),
                     name, "locked", TRUE)
        ELSE H

\* ------------------------------------------------------------------ actions
\* A handler ends: the host is as the handler left it, the panel has rows rs.
\* An infinite queue is cut off at MaxQueue entries by this guard.
Commit(H, name, rs, in) ==
    /\ Len(H.queue) <= MaxQueue
    /\ attrs' = H.attrs
    /\ undoQueue' = H.queue
    /\ undoState' = H.ust
    /\ undoInfinity' = H.uinf
    /\ undoLength' = H.ulen
    /\ conns' = H.conns
    /\ extLocked' = H.extLocked
    /\ rows' = rs
    /\ op' = name
    /\ fault' = H.fault
    /\ calls' = H.calls
    /\ arg' = in
    /\ UNCHANGED <<selected, teardown>>

NoArg == [none |-> TRUE]

RowNames(rs) == [i \in DOMAIN rs |-> rs[i].longName]

HostNames(as) == [i \in DOMAIN as |-> as[i].longName]

\* The four radio buttons; items is listWidget.selectedItems().
SetDisplayState(which, items) ==
    LET R == set_loop(which, [H |-> Host, rows |-> rows], items)
    IN  Commit(R.H, which, R.rows, [items |-> items])

set_keyable == \E items \in Arrangements(DOMAIN rows) : SetDisplayState("set_keyable", items)

set_notkeyable == \E items \in Arrangements(DOMAIN rows) : SetDisplayState("set_notkeyable", items)

set_displayable == \E items \in Arrangements(DOMAIN rows) : SetDisplayState("set_displayable", items)

set_hidden == \E items \in Arrangements(DOMAIN rows) : SetDisplayState("set_hidden", items)

\* name_change_long -> name_change('long'): cur is the current row (0: none),
\* text the content of the long-name field.
name_change_long(cur, text) ==
    /\ cur \in 0..Len(rows)
    /\ IF cur = 0 \/ rows[cur].longName = NoWidget
       THEN Commit(Host, "name_change_long", rows,
                   [cur |-> cur, text |-> text, old |-> NoWidget])
       ELSE LET r == Attribute_rename(Host, rows[cur].longName, text)
            IN  Commit(r.H, "name_change_long",
                       [rows EXCEPT ![cur].longName = r.longName],
                       [cur |-> cur, text |-> text, old |-> rows[cur].longName])

\* Attribute.__delete, the delete button of row i: delete(), ui.refresh().
Attribute__delete(i) ==
    /\ i \in DOMAIN rows
    /\ rows[i].longName # NoWidget
    /\ LET H1 == Attribute_delete(Host, rows[i].longName)
       IN  Commit(H1, "delete", IF H1.fault THEN rows ELSE AM_refresh(H1, selected),
                  [name |-> rows[i].longName, present |-> exists(Host, rows[i].longName)])

\* eventFilter on ChildRemoved after a drag and drop inside the list: the
\* toolkit has put the rows in the order p, the rows in lost have no widget
\* left; then reorder().
eventFilter(p, lost) ==
    /\ rows # <<>>
    /\ p \in Perms(DOMAIN rows)
    /\ lost \subseteq DOMAIN rows
    /\ LET moved == [i \in DOMAIN rows |-> IF p[i] \in lost THEN EmptyRow ELSE rows[p[i]]]
       IN  Commit(AM_reorder(Host, moved), "reorder", moved,
                  [before |-> HostNames(attrs)])

\* The Seperator button.
add_new_seperator(text, result) ==
    IF ~selected
    THEN Commit(Host, "add_new_seperator", rows, [text |-> text, result |-> result])
    ELSE LET H1 == AM_add_new_seperator(Host, text, result)
         IN  Commit(H1, "add_new_seperator",
                    IF result /\ Len(text) > 0 /\ ~H1.fault
                    THEN AM_refresh(H1, selected) ELSE rows,
                    [text |-> text, result |-> result])

\* The reload button.
refresh == Commit(Host, "refresh", AM_refresh(Host, selected), NoArg)

\* The host's selection changes; the registered callback runs refresh.
SelectionChanged ==
    /\ registered
    /\ selected' = ~selected
    /\ rows' = AM_refresh(Host, ~selected)
    /\ op' = "selection"
    /\ fault' = FALSE
    /\ calls' = <<>>
    /\ arg' = NoArg
    /\ UNCHANGED <<attrs, undoQueue, undoState, undoInfinity, undoLength, conns, extLocked,
                   teardown>>

\* ------------------------------------------------- opening and closing
HostUnchanged ==
    UNCHANGED <<attrs, undoQueue, undoState, undoInfinity, undoLength, conns, extLocked,
                selected>>

\* AttributeMaster.run, once on the constructed panel: create_ui(),
\* refresh(), register_callback(), window_is_open = True, show().
run ==
    /\ op = "init"
    /\ rows' = AM_refresh(Host, selected)
    /\ callback' = CallbackId
    /\ registered' = TRUE
    /\ window_is_open' = TRUE
    /\ op' = "run"
    /\ fault' = FALSE
    /\ calls' = <<[cmd |-> "addCallback"]>>
    /\ arg' = NoArg
    /\ UNCHANGED removeCalls
    /\ HostUnchanged

\* AttributeMaster.remove_callback: reading self.callback before
\* register_callback has set it raises AttributeError.
remove_callback ==
    IF callback = NoCallback
    THEN /\ fault' = TRUE
         /\ calls' = <<>>
         /\ UNCHANGED <<registered, removeCalls>>
    ELSE /\ fault' = FALSE
         /\ calls' = <<[cmd |-> "removeCallback"]>>
         /\ registered' = FALSE
         /\ removeCalls' = removeCalls + 1

\* A closeEvent without the window_is_open flag.
CloseEvent_unguarded(name) ==
    /\ removeCalls < MaxRemoves
    /\ op' = name
    /\ arg' = [wasOpen |-> window_is_open]
    /\ window_is_open' = FALSE
    /\ remove_callback
    /\ UNCHANGED <<rows, callback>>
    /\ HostUnchanged

\* AttributeMaster.closeEvent; removeCalls stays below MaxRemoves.
CloseEvent(name) ==
    /\ removeCalls < MaxRemoves
    /\ op' = name
    /\ arg' = [wasOpen |-> window_is_open]
    /\ IF ~window_is_open
       THEN /\ fault' = FALSE
            /\ calls' = <<>>
            /\ UNCHANGED <<window_is_open, registered, removeCalls>>
       ELSE /\ window_is_open' = FALSE
            /\ remove_callback
    /\ UNCHANGED <<rows, callback>>
    /\ HostUnchanged

closeEvent == CloseEvent("closeEvent")

\* AttributeMaster.dockCloseEventTriggered: self.closeEvent(None)
dockCloseEventTriggered == CloseEvent("dockCloseEventTriggered")

\* ------------------------------------------- the host outside of the panel
\* Commands the user or another tool runs in the host; the panel is not told.
External(H) ==
    /\ ~H.fault
    /\ Commit(H, "external", rows, NoArg)

ExternalDelete(n) ==
    /\ HExists(Host, n)
    /\ External(deleteAttr(setAttr(Host, n, "locked", FALSE), n))

\* ------------------------------------------------------------ specifications
AllFlags == [locked : BOOLEAN, keyable : BOOLEAN, channelBox : BOOLEAN]

\* What addAttr -keyable true creates, and a locked display-only attribute.
CommonFlags == {[locked |-> FALSE, keyable |-> TRUE, channelBox |-> FALSE],
                [locked |-> TRUE, keyable |-> FALSE, channelBox |-> TRUE]}

MkAttr(ln, f) == [longName |-> ln, locked |-> f.locked, keyable |-> f.keyable,
                  channelBox |-> f.channelBox]

\* The attribute lists a node can have over the names NS with flags in FS.
AttrLists(NS, FS) ==
    UNION {{[i \in DOMAIN p |-> MkAttr(p[i], fs[i])] : fs \in [DOMAIN p -> FS]}
           : p \in Arrangements(NS)}

\* No connections; and a locked plug of another node driving attribute 1,
\* which drives attribute 2 (the connections whose ends exist).
Unwired == [conns |-> {}, extLocked |-> FALSE]

Wired == [conns |-> {<<ExtPlug, PlainName(1)>>, <<PlainName(1), PlainName(2)>>},
          extLocked |-> TRUE]

\* The state after run(): create_ui(), refresh(), register_callback().
InitWith(lists, states, infs, lengths, wirings) ==
    /\ attrs \in lists
    /\ undoQueue = <<>>
    /\ undoState \in states
    /\ undoInfinity \in infs
    /\ undoLength \in lengths
    /\ \E w \in wirings :
        /\ conns = {c \in w.conns : \A k \in 1..2 : c[k] = ExtPlug \/ c[k] \in SeqNames(attrs)}
        /\ extLocked = w.extLocked
    /\ selected = TRUE
    /\ rows = AM_refresh(Host, selected)
    /\ op = "run"
    /\ fault = FALSE
    /\ calls = <<>>
    /\ arg = NoArg
    /\ window_is_open = TRUE
    /\ callback = CallbackId
    /\ registered = TRUE
    /\ removeCalls = 0

\* Names in play where display states and renames are explored.
SomeNames == {PlainName(i) : i \in 1..MaxPlain} \cup {SepName(0)}

ShortLists(NS, FS) == {l \in AttrLists(NS, FS) : Len(l) <= MaxAttrs}

DialogTexts == {<<>>, <<"Title">>}

\* Reordering: drag and drop in the list, every row keeping its widget, with
\* the host changing underneath.
\* Attribute 1 is the locked display-only one, the others are keyable.
InitReorder ==
    InitWith({l \in AttrLists(PlainNames, CommonFlags) :
                \A i \in DOMAIN l : l[i].locked <=> l[i].longName = PlainName(1)},
             BOOLEAN, BOOLEAN, 1..MaxUndoLen, {Unwired, Wired})

NextReorder ==
    \/ \E p \in Perms(DOMAIN rows) : eventFilter(p, {})
    \/ refresh
    \/ \E n \in PlainNames : ExternalDelete(n)

SpecReorder == InitReorder /\ [][NextReorder]_vars

\* Drag and drop where the toolkit may leave the moved row without its widget.
NextDrag ==
    \/ \E p \in Perms(DOMAIN rows), lost \in SUBSET (DOMAIN rows) :
            Cardinality(lost) <= 1 /\ eventFilter(p, lost)
    \/ refresh
    \/ \E n \in PlainNames : ExternalDelete(n)

SpecDrag == InitReorder /\ [][NextDrag]_vars

\* Display states, renames and deletes of single attributes, with the host
\* changing underneath.
Init == InitWith(ShortLists(SomeNames, AllFlags), BOOLEAN, {FALSE}, {1}, {Unwired})

Next ==
    \/ set_keyable
    \/ set_notkeyable
    \/ set_displayable
    \/ set_hidden
    \/ \E cur \in 0..MaxAttrs, text \in SomeNames : name_change_long(cur, text)
    \/ \E i \in 1..MaxAttrs : Attribute__delete(i)
    \/ refresh
    \/ \E n \in SomeNames : ExternalDelete(n)

Spec == Init /\ [][Next]_vars

\* Display states alone, with undo off: the node's attributes are some of the
\* separator 0 and the plain names, in that order, with every flag combination.
CanonNames == <<SepName(0)>> \o [i \in 1..MaxPlain |-> PlainName(i)]

OrderedLists(seq, FS) ==
    UNION {LET p == SelectSeq(seq, LAMBDA n : n \in NS)
           IN  {[i \in DOMAIN p |-> MkAttr(p[i], fs[i])] : fs \in [DOMAIN p -> FS]}
           : NS \in SUBSET {seq[i] : i \in DOMAIN seq}}

InitFlags == InitWith(OrderedLists(CanonNames, AllFlags), {FALSE}, {FALSE}, {1}, {Unwired})

NextFlags ==
    \/ set_keyable
    \/ set_notkeyable
    \/ set_displayable
    \/ set_hidden
    \/ refresh
    \/ \E n \in SomeNames : ExternalDelete(n)

SpecFlags == InitFlags /\ [][NextFlags]_vars

\* Long-name renames and deletes of attributes that are keyable or locked
\* display-only, with the host changing underneath.
InitRename ==
    InitWith(ShortLists(SomeNames, CommonFlags), BOOLEAN, {FALSE}, {1}, {Unwired})

NextRename ==
    \/ \E cur \in 0..MaxAttrs, text \in SomeNames : name_change_long(cur, text)
    \/ \E i \in 1..MaxAttrs : Attribute__delete(i)
    \/ refresh
    \/ \E n \in SomeNames : ExternalDelete(n)

SpecRename == InitRename /\ [][NextRename]_vars

\* Deletes of attributes that are keyable or locked display-only, connected
\* or not, with undo on or off and the host changing underneath.
InitDelete ==
    InitWith(AttrLists(PlainNames, CommonFlags), BOOLEAN, {FALSE}, 1..MaxUndoLen,
             {Unwired, Wired})

NextDelete ==
    \/ \E i \in 1..MaxNames : Attribute__delete(i)
    \/ refresh
    \/ \E n \in PlainNames : ExternalDelete(n)

SpecDelete == InitDelete /\ [][NextDelete]_vars

\* The life of the panel from its construction on: run(), close events
\* before and after it, the selection changing, the reload button while
\* the window is open.
InitLife ==
    /\ attrs \in ShortLists(SomeNames, CommonFlags)
    /\ undoQueue = <<>>
    /\ undoState = FALSE
    /\ undoInfinity = FALSE
    /\ undoLength = 1
    /\ conns = {}
    /\ extLocked = FALSE
    /\ selected \in BOOLEAN
    /\ rows = <<>>
    /\ op = "init"
    /\ fault = FALSE
    /\ calls = <<>>
    /\ arg = NoArg
    /\ window_is_open = FALSE
    /\ callback = NoCallback
    /\ registered = FALSE
    /\ removeCalls = 0

NextLife ==
    \/ run
    \/ closeEvent
    \/ dockCloseEventTriggered
    \/ SelectionChanged
    \/ window_is_open /\ refresh
    \/ \E n \in SomeNames : ExternalDelete(n)

SpecLife == InitLife /\ [][NextLife]_vars

\* The panel alone: every operation that rebuilds or rearranges the list,
\* and no command from outside of the panel. The Seperator button is
\* pressed while the node has fewer than MaxAttrs attributes.
NextSync ==
    \/ refresh
    \/ SelectionChanged
    \/ \E i \in 1..MaxAttrs : Attribute__delete(i)
    \/ \E text \in DialogTexts, result \in BOOLEAN :
            Len(attrs) < MaxAttrs /\ add_new_seperator(text, result)
    \/ \E cur \in 0..MaxAttrs, text \in SomeNames : name_change_long(cur, text)
    \/ \E p \in Perms(DOMAIN rows), lost \in SUBSET (DOMAIN rows) :
            Cardinality(lost) <= 1 /\ eventFilter(p, lost)

SpecSync == InitRename /\ [][NextSync]_vars

\* Separators: a node that has the separators 0..k-1, as the Seperator
\* button made them, for every k up to one more than the search allows.
SeparatorFlags == [locked |-> TRUE, keyable |-> FALSE, channelBox |-> TRUE]

SeparatorList(k) == [i \in 1..k |-> MkAttr(SepName(i - 1), SeparatorFlags)]

\* The node has at least the separators 0..9 and no id is missing below
\* its highest: the first row is deleted only then, so that the search
\* meets a free id in the middle, one at a time.
NoGap ==
    /\ Len(attrs) >= SepSearchLimit
    /\ \A id \in 0..(Len(attrs) - 1) : HExists(Host, SepName(id))

InitSep ==
    InitWith({SeparatorList(k) : k \in 0..(SepSearchLimit + 1)}, BOOLEAN, {FALSE}, {1},
             {Unwired})

NextSep ==
    \/ \E text \in DialogTexts, result \in BOOLEAN : add_new_seperator(text, result)
    \/ NoGap /\ Attribute__delete(1)
    \/ refresh
    \/ SelectionChanged

SpecSep == InitSep /\ [][NextSep]_vars

\* ------------------------------------------------------------------- claims
AllWidgets(rs) == \A i \in DOMAIN rs : rs[i].longName # NoWidget

RowNameSet(rs) == {rs[i].longName : i \in DOMAIN rs}

AttrSet(as) == {as[i] : i \in DOMAIN as}

\* C1: when every list row has its widget and the rows are exactly the
\* node's attributes, in any order, then after reorder() the host lists the
\* attributes in the order of the rows, each with the flags it had: none is
\* lost, none is added, and the connections and locks are as before.
C1_ReorderGivesListOrder ==
    [][(op' = "reorder" /\ AllWidgets(rows') /\ RowNameSet(rows') = SeqNames(attrs))
        => (/\ HostNames(attrs') = RowNames(rows')
            /\ AttrSet(attrs') = AttrSet(attrs)
            /\ conns' = conns
            /\ extLocked' = extLocked
            /\ ~fault')]_vars

\* C1 witness: the host order [1,2,3] became the dragged order [3,1,2].
C1_Witness ==
    /\ op = "reorder"
    /\ ~fault
    /\ arg.before = <<PlainName(1), PlainName(2), PlainName(3)>>
    /\ HostNames(attrs) = <<PlainName(3), PlainName(1), PlainName(2)>>
    /\ RowNames(rows) = HostNames(attrs)
    /\ conns = Wired.conns

\* C2: reorder() leaves the undo settings (state, infinity, length) as it
\* found them, whether its host calls succeeded or one of them raised.
C2_ReorderRestoresUndoSettings ==
    [][op' = "reorder"
        => (undoState' = undoState /\ undoInfinity' = undoInfinity
            /\ undoLength' = undoLength)]_vars

\* C2 witness: a reorder that raised part-way (a row's attribute was gone
\* from the host, after another row's attribute had been deleted), with
\* undo off and finite, the opposite of what reorder forces.
C2_Witness ==
    /\ op = "reorder"
    /\ fault
    /\ \E k \in DOMAIN calls : calls[k].cmd = "deleteAttr"
    /\ ~undoState
    /\ ~undoInfinity

AExists(as, n) == \E i \in DOMAIN as : as[i].longName = n

AGet(as, n) == as[CHOOSE i \in DOMAIN as : as[i].longName = n]

SetOps == {"set_keyable", "set_notkeyable", "set_displayable", "set_hidden"}

\* C3: the delete button on a row whose attribute is no longer on the host
\* does nothing and raises nothing.
C3_DeleteOfAbsentIsSilent ==
    [][(op' = "delete" /\ ~arg'.present) => (~fault' /\ attrs' = attrs)]_vars

\* C4: a long-name rename to a name that an attribute of the node already
\* has changes nothing: not the node's attributes or their order or flags,
\* not the name the row holds; and nothing is raised.
C4_RenameToExistingIsNoOp ==
    [][(op' = "name_change_long" /\ arg'.old # NoWidget /\ AExists(attrs, arg'.text))
        => (attrs' = attrs /\ rows' = rows /\ ~fault' /\ calls' = <<>>)]_vars

\* C4 witness: a locked attribute was to be renamed to the name of another
\* attribute of the node; both are still there.
C4_Witness ==
    /\ op = "name_change_long"
    /\ arg.old # NoWidget
    /\ arg.text # arg.old
    /\ AExists(attrs, arg.old)
    /\ AExists(attrs, arg.text)
    /\ AGet(attrs, arg.old).locked
    /\ ~fault

\* C9: a long-name rename of an existing attribute to a free name keeps
\* the lock: the attribute is found under the new name, locked iff it was
\* locked before, with its other flags and its place; the host's renameAttr
\* was called on it unlocked; the row holds the new name.
C9_RenameKeepsLock ==
    [][(op' = "name_change_long" /\ arg'.old # NoWidget
            /\ AExists(attrs, arg'.old) /\ ~AExists(attrs, arg'.text))
        => (/\ ~fault'
            /\ AExists(attrs', arg'.text)
            /\ ~AExists(attrs', arg'.old)
            /\ AGet(attrs', arg'.text) = [AGet(attrs, arg'.old) EXCEPT !.longName = arg'.text]
            /\ HostNames(attrs') = [i \in DOMAIN attrs |->
                    IF attrs[i].longName = arg'.old THEN arg'.text ELSE attrs[i].longName]
            /\ \E k \in DOMAIN calls' :
                    /\ calls'[k].cmd = "renameAttr"
                    /\ calls'[k].ok
                    /\ ~calls'[k].lockedThen
            /\ rows'[arg'.cur].longName = arg'.text)]_vars

\* C9 witness: a locked attribute was renamed and is locked under its new name.
C9_Witness ==
    /\ op = "name_change_long"
    /\ ~fault
    /\ \E k \in DOMAIN calls : calls[k].cmd = "renameAttr" /\ calls[k].ok
    /\ AExists(attrs, arg.text)
    /\ AGet(attrs, arg.text).locked
    /\ rows[arg.cur].longName = arg.text

\* C10: a mutating operation on a row whose attribute is no longer on the
\* host (the four display states, the long-name rename, the delete) leaves
\* the host as it is and raises nothing.
AbsentTarget ==
    \/ /\ op' \in SetOps
       /\ arg'.items # <<>>
       /\ \A k \in DOMAIN arg'.items :
            /\ rows[arg'.items[k]].longName # NoWidget
            /\ ~AExists(attrs, rows[arg'.items[k]].longName)
    \/ /\ op' = "name_change_long"
       /\ arg'.old # NoWidget
       /\ ~AExists(attrs, arg'.old)
    \/ /\ op' = "delete"
       /\ ~arg'.present

C10_AbsentAttributeIsNoOp ==
    [][AbsentTarget => (~fault' /\ attrs' = attrs /\ conns' = conns)]_vars

\* The four display classes as flag combinations (what the four radio
\* buttons stand for).
InClass(c, rec) ==
    CASE c = "keyable" -> ~rec.locked /\ rec.keyable
      [] c = "notkeyable" -> ~rec.locked /\ ~rec.keyable /\ rec.channelBox
      [] c = "locked" -> rec.locked /\ ~rec.keyable /\ rec.channelBox
      [] c = "hidden" -> rec.locked /\ ~rec.keyable /\ ~rec.channelBox

Classes == {"keyable", "notkeyable", "locked", "hidden"}

ClassOfOp(o) ==
    CASE o = "set_keyable" -> "keyable"
      [] o = "set_notkeyable" -> "notkeyable"
      [] o = "set_displayable" -> "locked"
      [] o = "set_hidden" -> "hidden"

\* C6: after any of the four display-state handlers has run to its end,
\* whatever the flags were and whatever ran before, each selected attribute
\* has the flags of exactly one of the four display classes, the one of
\* the button, and a row that is no separator is styled as that class.
C6_DisplayStateIsOneClass ==
    (op \in SetOps /\ ~fault) =>
        \A k \in DOMAIN arg.items :
            LET r == rows[arg.items[k]]
                rec == AGet(attrs, r.longName)
            IN  /\ AExists(attrs, r.longName)
                /\ Cardinality({c \in Classes : InClass(c, rec)}) = 1
                /\ InClass(ClassOfOp(op), rec)
                /\ ~is_seperator(r.longName) => r.style = ClassOfOp(op)

\* C6 witness: set_hidden ran on two selected rows, one a separator.
C6_Witness ==
    /\ op = "set_hidden"
    /\ ~fault
    /\ Len(arg.items) = 2
    /\ \E k \in DOMAIN arg.items : rows[arg.items[k]].style = "hidden"

\* C7 as stated: after set_keyable the attribute is unlocked, keyable and
\* is_hidden() is false.
C7_KeyableIsNotHidden ==
    (op = "set_keyable" /\ ~fault) =>
        \A k \in DOMAIN arg.items :
            LET ln == rows[arg.items[k]].longName
            IN  /\ ~is_locked(Host, ln)
                /\ is_keyable(Host, ln)
                /\ ~is_hidden(Host, ln)

\* C7 amended: after set_keyable the attribute is unlocked and keyable, its
\* channel-box flag is what it was, and its display class is not hidden
\* (the row of a non-separator is styled keyable).
C7_KeyableIsUnlockedKeyable ==
    [][(op' = "set_keyable" /\ ~fault') =>
        \A k \in DOMAIN arg'.items :
            LET ln == rows[arg'.items[k]].longName
            IN  /\ AExists(attrs', ln)
                /\ AGet(attrs', ln) =
                       [AGet(attrs, ln) EXCEPT !.locked = FALSE, !.keyable = TRUE]
                /\ rows'[arg'.items[k]].style \in {"keyable", "separator"}
                /\ rows'[arg'.items[k]].style = "separator" => is_seperator(ln)]_vars

\* C7 witness: set_keyable ran on an attribute whose channel-box flag is
\* off, as set_hidden leaves it: is_hidden() is true, the row is keyable.
C7_Witness ==
    /\ op = "set_keyable"
    /\ ~fault
    /\ \E k \in DOMAIN arg.items :
            /\ is_hidden(Host, rows[arg.items[k]].longName)
            /\ rows[arg.items[k]].style = "keyable"

\* The classification by priority, over the flags themselves.
PriorityClass(rec) ==
    IF \E k \in DOMAIN rec.longName : rec.longName[k] = SepMarker THEN "separator"
    ELSE IF ~rec.channelBox /\ ~rec.keyable THEN "hidden"
    ELSE IF rec.locked THEN "locked"
    ELSE IF ~rec.keyable THEN "notkeyable"
    ELSE "keyable"

FreshOps == {"run", "refresh"}

\* C8: the style of a freshly built row is the first match of separator,
\* hidden-and-not-keyable, locked, not-keyable, keyable, for every flag
\* combination: a name with the separator marker is a separator whatever
\* its flags; locked and not keyable and in the channel box is locked.
C8_ClassificationByPriority ==
    (op \in FreshOps) =>
        /\ Len(rows) = Len(attrs)
        /\ \A i \in DOMAIN rows :
            /\ rows[i].longName = attrs[i].longName
            /\ rows[i].style = PriorityClass(attrs[i])
            /\ is_seperator(rows[i].longName) => rows[i].style = "separator"
            /\ (~is_seperator(rows[i].longName) /\ attrs[i].locked
                    /\ ~attrs[i].keyable /\ attrs[i].channelBox)
                => rows[i].style = "locked"

\* C8 witness: fresh rows with an unlocked keyable separator and a locked,
\* not keyable attribute shown in the channel box.
C8_Witness ==
    /\ op = "refresh"
    /\ \E i \in DOMAIN rows :
            /\ is_seperator(rows[i].longName)
            /\ ~attrs[i].locked /\ attrs[i].keyable
    /\ \E i \in DOMAIN rows :
            /\ rows[i].style = "locked"
            /\ ~attrs[i].keyable

HasSeparators(as, n) == \A id \in 0..(n - 1) : AExists(as, SepName(id))

Confirmed == selected /\ arg'.result /\ Len(arg'.text) > 0

\* C5 as stated: with the separators 0..9 on the node, a confirmed
\* add_new_seperator leaves the node's attributes as they are.
C5_NoEleventhSeparator ==
    [][(op' = "add_new_seperator" /\ Confirmed /\ HasSeparators(attrs, SepSearchLimit))
        => attrs' = attrs]_vars

\* C5 amended: with the separators 0..10 on the node (eleven), a confirmed
\* add_new_seperator leaves the node's attributes as they are: the search
\* stops at id 10 and the host refuses the name in use; with 0..9 and no
\* separator 10, it appends separator 10, locked and in the channel box.
C5_NoTwelfthSeparator ==
    [][(op' = "add_new_seperator" /\ Confirmed /\ HasSeparators(attrs, SepSearchLimit))
        => IF AExists(attrs, SepName(SepSearchLimit))
           THEN attrs' = attrs /\ fault' /\ rows' = rows
           ELSE /\ attrs' = Append(attrs, MkAttr(SepName(SepSearchLimit), SeparatorFlags))
                /\ ~fault']_vars

\* C5 witness: the button was confirmed on a node with the eleven
\* separators 0..10; the node still has exactly these.
C5_Witness ==
    /\ op = "add_new_seperator"
    /\ selected /\ arg.result /\ Len(arg.text) > 0
    /\ fault
    /\ HasSeparators(attrs, SepSearchLimit + 1)
    /\ Len(attrs) = SepSearchLimit + 1

\* An attribute kept its flags, but for a lock that was taken off.
SameButLock(new, old) == new = old \/ new = [old EXCEPT !.locked = FALSE]

IsUnlockCall(c, plug) ==
    c.cmd = "setAttr" /\ c.name = plug /\ c.field = "locked" /\ ~c.val /\ c.ok

\* C11: the delete button on a row whose attribute is on the host, locked or
\* not, connected or not: the first host command unlocks the attribute; for
\* every connection into or out of it there is a disconnectAttr, directly
\* after the unlock of the plug on the other end; deleteAttr comes once,
\* after all of these, and succeeds. Afterwards the attribute is gone, no
\* connection has it as an end, and the other attributes are there in their
\* order. Nothing is raised.
C11_DeleteUnlocksSeversRemoves ==
    [][(op' = "delete" /\ arg'.present) =>
        LET n == arg'.name
            cs == calls'
            ends == {c \in conns : c[1] = n \/ c[2] = n}
            dels == {k \in DOMAIN cs : cs[k].cmd = "deleteAttr"}
            cuts == {k \in DOMAIN cs : cs[k].cmd = "disconnectAttr"}
        IN  /\ ~fault'
            /\ ~AExists(attrs', n)
            /\ \A c \in conns' : c[1] # n /\ c[2] # n
            /\ conns' = conns \ ends
            /\ HostNames(attrs') = HostNames(RemoveAt(attrs, HIndex(Host, n)))
            /\ \A i \in DOMAIN attrs' : SameButLock(attrs'[i], AGet(attrs, attrs'[i].longName))
            /\ Len(cs) >= 4
            /\ cs[1].cmd = "openChunk"
            /\ IsUnlockCall(cs[2], n)
            /\ cs[Len(cs)].cmd = "closeChunk"
            /\ dels = {Len(cs) - 1}
            /\ cs[Len(cs) - 1].name = n /\ cs[Len(cs) - 1].ok
            /\ Cardinality(cuts) = Cardinality(ends)
            /\ \A k \in cuts :
                /\ cs[k].ok
                /\ <<cs[k].name, cs[k].dst>> \in ends
                /\ k > 3
                /\ IsUnlockCall(cs[k - 1], IF cs[k].name = n THEN cs[k].dst ELSE cs[k].name)
            /\ \A c \in ends : \E k \in cuts : <<cs[k].name, cs[k].dst>> = c]_vars

\* C11 witness: attribute 1, driven by the locked plug of another node and
\* driving attribute 2, was deleted: two connections were cut, the other
\* node's plug is unlocked now, attribute 2 is still there.
C11_Witness ==
    /\ op = "delete"
    /\ arg.present
    /\ arg.name = PlainName(1)
    /\ ~fault
    /\ \E k \in DOMAIN calls :
            calls[k].cmd = "disconnectAttr" /\ calls[k].name = ExtPlug /\ calls[k].ok
    /\ \E k \in DOMAIN calls :
            calls[k].cmd = "disconnectAttr" /\ calls[k].dst = PlainName(2) /\ calls[k].ok
    /\ ~extLocked
    /\ AExists(attrs, PlainName(2))
    /\ ~AExists(attrs, PlainName(1))

DeletionsDone(cs) == {k \in DOMAIN cs : cs[k].cmd = "deleteAttr" /\ cs[k].ok}

UndosIssued(cs) == {k \in DOMAIN cs : cs[k].cmd = "undo"}

\* C12: in a reorder() that runs to its end, whatever the list rows are, with
\* or without widget: as many cmds.undo() are issued as attributes were
\* deleted, every deletion comes before the first undo, and what was in the
\* undo queue before reorder() is in it afterwards (nothing older than the
\* reorder's own deletions was undone).
C12_UndosEqualDeletions ==
    [][(op' = "reorder" /\ ~fault') =>
        /\ Cardinality(UndosIssued(calls')) = Cardinality(DeletionsDone(calls'))
        /\ \A d \in DeletionsDone(calls'), u \in UndosIssued(calls') : d < u
        /\ undoState => undoQueue' = undoQueue]_vars

CloseOps == {"closeEvent", "dockCloseEventTriggered"}

\* C13: removeCallback is never called twice; before run() nothing is
\* registered and close events release nothing; while the window is open
\* the callback is registered and not released; once the panel has closed
\* after run(), removeCallback has been called exactly once and the
\* callback is not registered, however many close events follow: a close
\* event for a window that is not open calls nothing.
C13_CallbackReleasedOnce ==
    /\ removeCalls <= 1
    /\ callback = NoCallback => (removeCalls = 0 /\ ~registered /\ ~window_is_open)
    /\ window_is_open => (callback = CallbackId /\ registered /\ removeCalls = 0)
    /\ (callback = CallbackId /\ ~window_is_open) => (removeCalls = 1 /\ ~registered)
    /\ (op \in CloseOps /\ ~arg.wasOpen) => calls = <<>>

\* C13 witness: after run() and a first close, dockCloseEventTriggered came
\* for the closed window; removeCallback has been called once.
C13_Witness ==
    /\ op = "dockCloseEventTriggered"
    /\ ~arg.wasOpen
    /\ callback = CallbackId
    /\ removeCalls = 1
    /\ ~registered

\* C14: with no command from outside of the panel, after every panel
\* operation the long names of the list rows that have a widget are the
\* node's attributes in host order when the node is selected, and there is
\* no row when nothing is selected.
C14_PanelMatchesHost ==
    /\ selected => attributes_ordered(rows) = HostNames(attrs)
    /\ ~selected => rows = <<>>
====
